---- MODULE Spec2Model ----
(***************************************************************************)
(* The line-oriented scanner of the Java analyzer                          *)
(* (agent/src/analyzers/javaAnalyzer.js, class JavaAnalyzer, lines         *)
(* 501-1550; the React analyzer has the same block-comment tracker and the *)
(* same analyzeBlockComment).                                              *)
(*                                                                         *)
(* A text is a sequence of lines and a line is a sequence of lexemes.  A   *)
(* lexeme is one character (" ", "/", "*", "(", ")") or one word whose     *)
(* text is the lexeme's name ("System.out.println", "1000", ...).  No      *)
(* pattern the modelled code searches for straddles two lexemes or lies    *)
(* inside a longer word of the alphabet, so String.includes, startsWith,   *)
(* trim, split, toLowerCase and length are computed lexeme by lexeme.  A    *)
(* file name is a sequence of lexemes too (<<"Main", ".java">>).            *)
(*                                                                         *)
(* The module holds the scanner (Spec, and SpecWindow, SpecEdges, SpecFar,  *)
(* SpecCommented for texts that exercise its windows), a client that calls *)
(* analyze repeatedly on one instance (SpecCalls), the git-diff driver of  *)
(* agent/src/index.js, lines 164-277 (SpecFiles), the pull-request driver  *)
(* of agent/src/index.js, lines 1-162 (SpecMain) and the posting layer     *)
(* (SpecPost).                                                             *)
(***************************************************************************)
EXTENDS Integers, Sequences, FiniteSets, TLC

\* ------------------------------------------------------------ bounds
MaxLines == 4
MaxWindowLines == 12
MaxCallLines == 3
MaxCalls == 2
MaxFiles == 3
MaxPosts == 3
MaxEdgeLines == 3

\* ------------------------------------------------------------ strings
NL == "\n"

OpenMarker == <<"/", "*">>
CloseMarker == <<"*", "/">>
DocMarker == <<"/", "*", "*">>
LineCommentMarker == <<"/", "/">>

\* number of characters of a lexeme
Width(c) ==
  CASE c \in {"System.out.println", "System.err.println"} -> 18
    [] c = "Thread.sleep" -> 12
    [] c = "console.log" -> 11
    [] c = "new BufferedReader" -> 18
    [] c = "close()" -> 7
    [] c = "serialVersionUID" -> 16
    [] c = "Serializable" -> 12
    [] c = "@Override" -> 9
    [] c = "function" -> 8
    [] c \in {"return", "Socket"} -> 6
    [] c = "const" -> 5
    [] c \in {"try", "run"} -> 3
    [] c = "@param" -> 6
    [] c \in {"FIXME", "fixme"} -> 5
    [] c \in {"TODO", "todo", "hack", "1000"} -> 4
    [] OTHER -> 1

RECURSIVE Length(_)
\* String.length
Length(s) == IF s = <<>> THEN 0 ELSE Width(Head(s)) + Length(Tail(s))

IsSpace(c) == c \in {" ", NL}

RECURSIVE TrimStart(_)
TrimStart(s) == IF s # <<>> /\ IsSpace(Head(s)) THEN TrimStart(Tail(s)) ELSE s

RECURSIVE TrimEnd(_)
TrimEnd(s) ==
  IF s # <<>> /\ IsSpace(s[Len(s)]) THEN TrimEnd(SubSeq(s, 1, Len(s) - 1)) ELSE s

\* String.prototype.trim
Trim(s) == TrimEnd(TrimStart(s))

\* String.prototype.startsWith
StartsWith(s, p) == Len(s) >= Len(p) /\ SubSeq(s, 1, Len(p)) = p

\* String.prototype.endsWith
EndsWith(s, p) == Len(s) >= Len(p) /\ SubSeq(s, Len(s) - Len(p) + 1, Len(s)) = p

\* String.prototype.includes
Includes(s, p) == \E i \in 1..(Len(s) - Len(p) + 1) : SubSeq(s, i, i + Len(p) - 1) = p

LowerOf(c) == CASE c = "TODO" -> "todo" [] c = "FIXME" -> "fixme" [] OTHER -> c

\* String.prototype.toLowerCase
ToLowerCase(s) == [i \in 1..Len(s) |-> LowerOf(s[i])]

RECURSIVE Split(_, _)
\* String.prototype.split for a separator that is one lexeme
Split(s, sep) ==
  IF \E i \in 1..Len(s) : s[i] = sep
  THEN LET i == CHOOSE k \in 1..Len(s) : s[k] = sep /\ \A j \in 1..(k - 1) : s[j] # sep
       IN <<SubSeq(s, 1, i - 1)>> \o Split(SubSeq(s, i + 1, Len(s)), sep)
  ELSE <<s>>

\* const lines = content.split('\n'): content is a lexeme sequence in which NL
\* separates the lines
SplitLines(content) == Split(content, NL)

\* !s.split('TODO')[1]?.trim()
NoTextAfterTodo(s) ==
  LET parts == Split(s, "TODO")
  IN Len(parts) < 2 \/ Trim(parts[2]) = <<>>

\* a lexeme that begins / ends with a word character (\w)
WordLexemes ==
  {"System.out.println", "System.err.println", "new BufferedReader", "TODO", "todo",
   "FIXME", "fixme", "hack", "1000", "Thread.sleep", "console.log",
   "return", "run", "Socket", "try", "function", "const", "Serializable",
   "serialVersionUID"}
StartsWithWordChar(c) == c \in WordLexemes
EndsWithWordChar(c) == c \in WordLexemes

\* a lexeme of word characters only
PureWordLexemes ==
  {"TODO", "todo", "FIXME", "fixme", "hack", "1000", "return", "run", "Socket",
   "try", "function", "const", "Serializable", "serialVersionUID"}

\* /^\s*\w+/.test(l)
StartsWithWord(l) ==
  LET t == TrimStart(l) IN t # <<>> /\ StartsWithWordChar(Head(t))

\* /^\s*\w+\s*=|\w+\(/.test(l)
AssignOrCall(l) ==
  \/ LET t == TrimStart(l)
     IN \E k \in 1..Len(t), m \in 1..Len(t) :
          /\ k < m
          /\ \A j \in 1..k : t[j] \in PureWordLexemes
          /\ \A j \in (k + 1)..(m - 1) : IsSpace(t[j])
          /\ t[m] = "="
  \/ \E i \in 2..Len(l) : l[i] = "(" /\ EndsWithWordChar(l[i - 1])

\* /\b\d{3,}\b/.test(line)
HasLongNumber(line) ==
  \E i \in 1..Len(line) :
    /\ line[i] = "1000"
    /\ (i > 1 => ~EndsWithWordChar(line[i - 1]))
    /\ (i < Len(line) => ~StartsWithWordChar(line[i + 1]))

\* Array.prototype.slice(from, to) on 0-based indices, to exclusive
Slice(a, from, to) ==
  LET lo == IF from < 0 THEN 0 ELSE from
      hi == IF to > Len(a) THEN Len(a) ELSE to
  IN IF lo >= hi THEN <<>> ELSE SubSeq(a, lo + 1, hi)

Min(a, b) == IF a < b THEN a ELSE b

\* the value undefined: in the place of a file name (analyze called without
\* its second argument) or of an array element that does not exist; it is not a
\* string
Undefined == <<"undefined">>

\* lines[k] for a 0-based k: undefined outside the array
At(lines, k) == IF 0 <= k /\ k < Len(lines) THEN lines[k + 1] ELSE Undefined

\* value?.includes(part): undefined, which is falsy, when there is no value
IncludesIfAny(value, part) == value # Undefined /\ Includes(value, part)

\* ------------------------------------------------------------ findings
\* The message of the one push site of a rule id.  The ids the two analyzers
\* share have the same message in both, except EMPTY_BLOCK_COMMENT, whose React
\* message is given at its push site; UNREACHABLE_CODE has two push sites in
\* the Java analyzer, each with its own message.
Message(rule) ==
  CASE rule = "USE_LOGGING_FRAMEWORK" ->
         "Use a logging framework instead of System.out/err.println"
    [] rule = "INCOMPLETE_TODO" -> "TODO comment without description"
    [] rule = "MAGIC_NUMBER" -> "Magic numbers should be extracted to named constants"
    [] rule = "THREAD_SLEEP" -> "Avoid Thread.sleep() in production code"
    [] rule = "RESOURCE_LEAK" -> "Resource opened without cleanup - memory leak risk"
    [] rule = "RESOURCE_MANAGEMENT" -> "Resource should use try-with-resources"
    [] rule = "ANNOTATION_PLACEMENT" -> "@Override should be on method declaration"
    [] rule = "MISSING_SERIALVERSIONUID" ->
         "Serializable class without serialVersionUID field"
    [] rule = "FLAKY_TEST" -> "Test using Thread.sleep() - flaky and slow"
    [] rule = "EMPTY_BLOCK_COMMENT" -> "Block comment appears to be empty"
    [] rule = "INCOMPLETE_TODO_BLOCK" -> "Incomplete TODO in block comment"
    [] rule = "FIXME_COMMENT" -> "FIXME comment - resolve before production"
    [] rule = "TEMPORARY_WORKAROUND" -> "Temporary workaround detected"
    [] rule = "INCOMPLETE_JAVADOC" -> "JavaDoc missing @param/@return/@throws"
    [] rule = "CONSOLE_LOG" ->
         "console.log should be removed or replaced with proper logging"
    [] rule = "CONSIDER_USECALLBACK" ->
         "Consider memoizing callbacks to prevent re-renders"
    [] rule = "MISSING_JSDOC_TAGS" -> "Block comment could use JSDoc tags"

\* mutant: the finding carries forEach's 0-based index
FindingZeroBased(lineNumber, severity, rule) ==
  [line |-> lineNumber - 1, severity |-> severity, rule |-> rule,
   message |-> Message(rule)]

Finding(lineNumber, severity, rule) ==
  [line |-> lineNumber, severity |-> severity, rule |-> rule,
   message |-> Message(rule)]

\* a finding of a push site that is not the only one of its rule id
FindingWith(lineNumber, severity, rule, message) ==
  [line |-> lineNumber, severity |-> severity, rule |-> rule, message |-> message]

CommentRules ==
  {"EMPTY_BLOCK_COMMENT", "INCOMPLETE_TODO_BLOCK", "FIXME_COMMENT",
   "TEMPORARY_WORKAROUND", "INCOMPLETE_JAVADOC"}

\* the rule ids of the React analyzer's analyzeBlockComment
ReactCommentRules ==
  {"EMPTY_BLOCK_COMMENT", "INCOMPLETE_TODO_BLOCK", "FIXME_COMMENT",
   "TEMPORARY_WORKAROUND", "MISSING_JSDOC_TAGS"}

\* file: filename, the first field of every finding the analyzers push
WithFile(findings, name) ==
  [j \in 1..Len(findings) |->
     [file |-> name, line |-> findings[j].line, severity |-> findings[j].severity,
      rule |-> findings[j].rule, message |-> findings[j].message]]

\* ------------------------------------------------------------ analyzeBlockComment
EmptyCommentMaxLines == 2
JavadocMinLength == 50

\* commentLines.length <= 2
LooksEmpty(blockComment) == Len(Split(blockComment, NL)) <= EmptyCommentMaxLines

IncompleteTodoBlock(blockComment) ==
  /\ Includes(ToLowerCase(blockComment), <<"todo">>)
  /\ NoTextAfterTodo(blockComment)

FixmeComment(blockComment) == Includes(ToLowerCase(blockComment), <<"fixme">>)

TemporaryWorkaround(blockComment) ==
  \/ Includes(ToLowerCase(blockComment), <<"bug">>)
  \/ Includes(ToLowerCase(blockComment), <<"hack">>)

IncompleteJavadoc(blockComment) ==
  /\ Includes(blockComment, DocMarker)
  /\ ~Includes(blockComment, <<"@param">>)
  /\ ~Includes(blockComment, <<"@return">>)
  /\ ~Includes(blockComment, <<"@throws">>)
  /\ Length(blockComment) > JavadocMinLength

Emit(cond, f) == IF cond THEN <<f>> ELSE <<>>

\* the findings analyzeBlockComment pushes, in push order
AnalyzeBlockComment(blockComment, lineNumber) ==
  IF LooksEmpty(blockComment)
  THEN <<Finding(lineNumber, "info", "EMPTY_BLOCK_COMMENT")>>
  ELSE Emit(IncompleteTodoBlock(blockComment),
            Finding(lineNumber, "warning", "INCOMPLETE_TODO_BLOCK"))
       \o Emit(FixmeComment(blockComment),
               Finding(lineNumber, "error", "FIXME_COMMENT"))
       \o Emit(TemporaryWorkaround(blockComment),
               Finding(lineNumber, "warning", "TEMPORARY_WORKAROUND"))
       \o Emit(IncompleteJavadoc(blockComment),
               Finding(lineNumber, "info", "INCOMPLETE_JAVADOC"))

\* ------------------------------------------------------------ analyzeBlockComment (React)
JsdocMinLength == 100

\* the only lexeme of the alphabet other than "@" that holds the character '@'
\* is "@param"
MissingJsdocTags(blockComment) ==
  /\ Includes(blockComment, DocMarker)
  /\ ~Includes(blockComment, <<"@">>)
  /\ ~Includes(blockComment, <<"@param">>)
  /\ Length(blockComment) > JsdocMinLength

\* the findings the React analyzer's analyzeBlockComment pushes, in push order
ReactAnalyzeBlockComment(blockComment, lineNumber) ==
  IF LooksEmpty(blockComment)
  THEN <<FindingWith(lineNumber, "info", "EMPTY_BLOCK_COMMENT",
                     "Block comment appears empty")>>
  ELSE Emit(IncompleteTodoBlock(blockComment),
            Finding(lineNumber, "warning", "INCOMPLETE_TODO_BLOCK"))
       \o Emit(FixmeComment(blockComment),
               Finding(lineNumber, "error", "FIXME_COMMENT"))
       \o Emit(TemporaryWorkaround(blockComment),
               Finding(lineNumber, "warning", "TEMPORARY_WORKAROUND"))
       \o Emit(MissingJsdocTags(blockComment),
               Finding(lineNumber, "info", "MISSING_JSDOC_TAGS"))

\* ------------------------------------------------------------ line rules
\* The rules of the catalog that can match a line over the alphabet, in the
\* order of the source.  index is the 0-based index of forEach.  The file name
\* is not read by these rules (rule 76, which reads it, follows below); no other
\* rule of the source matches a line of the texts of the specifications.
LeakWindow == 10

\* mutant: only System.out.println is matched
UseLoggingFrameworkOutOnly(lines, index) ==
  Includes(lines[index + 1], <<"System.out.println">>)

\* rule 1
UseLoggingFramework(lines, index) ==
  LET line == lines[index + 1]
  IN \/ Includes(line, <<"System.out.println">>)
     \/ Includes(line, <<"System.err.println">>)

\* mutant: the rule does not ask for the '// TODO' marker
IncompleteTodoUnguarded(lines, index) == NoTextAfterTodo(lines[index + 1])

\* rule 3
IncompleteTodo(lines, index) ==
  LET line == lines[index + 1]
  IN Includes(line, <<"/", "/", " ", "TODO">>) /\ NoTextAfterTodo(line)

\* rule 4
MagicNumber(lines, index) ==
  LET line == lines[index + 1]
  IN HasLongNumber(line) /\ ~StartsWith(Trim(line), LineCommentMarker)

\* rule 7
ThreadSleep(lines, index) == Includes(lines[index + 1], <<"Thread.sleep">>)

\* lines.slice(index, Math.min(index + 10, lines.length))
LeakLookAhead(lines, index) ==
  Slice(lines, index, Min(index + LeakWindow, Len(lines)))

\* rule 15
ResourceLeak(lines, index) ==
  LET line == lines[index + 1]
      ahead == LeakLookAhead(lines, index)
  IN /\ \/ Includes(line, <<"new FileInputStream">>)
        \/ Includes(line, <<"new BufferedReader">>)
        \/ Includes(line, <<"getConnection">>)
     /\ ~\E k \in 1..Len(ahead) :
           \/ Includes(ahead[k], <<"close()">>)
           \/ Includes(ahead[k], <<"try-with-resources">>)

\* rule ids in the order of the source
Catalog ==
  <<"USE_LOGGING_FRAMEWORK", "INCOMPLETE_TODO", "MAGIC_NUMBER", "THREAD_SLEEP",
    "RESOURCE_LEAK">>

\* the condition of the rule's if statement
Applies(rule, lines, index) ==
  CASE rule = "USE_LOGGING_FRAMEWORK" -> UseLoggingFramework(lines, index)
    [] rule = "INCOMPLETE_TODO" -> IncompleteTodo(lines, index)
    [] rule = "MAGIC_NUMBER" -> MagicNumber(lines, index)
    [] rule = "THREAD_SLEEP" -> ThreadSleep(lines, index)
    [] rule = "RESOURCE_LEAK" -> ResourceLeak(lines, index)

\* mutant: the rules chained by else-if, so that the first match wins
LineFindingsFirstMatch(lines, index) ==
  LET lineNumber == index + 1
  IN IF UseLoggingFramework(lines, index)
     THEN <<Finding(lineNumber, "warning", "USE_LOGGING_FRAMEWORK")>>
     ELSE IF IncompleteTodo(lines, index)
     THEN <<Finding(lineNumber, "info", "INCOMPLETE_TODO")>>
     ELSE IF MagicNumber(lines, index)
     THEN <<Finding(lineNumber, "warning", "MAGIC_NUMBER")>>
     ELSE IF ThreadSleep(lines, index)
     THEN <<Finding(lineNumber, "warning", "THREAD_SLEEP")>>
     ELSE Emit(ResourceLeak(lines, index),
               Finding(lineNumber, "error", "RESOURCE_LEAK"))

\* the findings the rules push for one line, in push order
LineFindings(lines, index) ==
  LET lineNumber == index + 1
  IN Emit(UseLoggingFramework(lines, index),
          Finding(lineNumber, "warning", "USE_LOGGING_FRAMEWORK"))
     \o Emit(IncompleteTodo(lines, index),
             Finding(lineNumber, "info", "INCOMPLETE_TODO"))
     \o Emit(MagicNumber(lines, index),
             Finding(lineNumber, "warning", "MAGIC_NUMBER"))
     \o Emit(ThreadSleep(lines, index),
             Finding(lineNumber, "warning", "THREAD_SLEEP"))
     \o Emit(ResourceLeak(lines, index),
             Finding(lineNumber, "error", "RESOURCE_LEAK"))

\* line.includes('FileInputStream') || line.includes('Connection') ||
\* line.includes('Socket')
StreamWords ==
  {"FileInputStream", "new FileInputStream", "Connection", "getConnection", "Socket"}
OpensStream(line) == \E i \in 1..Len(line) : line[i] \in StreamWords

\* l.includes('try')
HasTry(l) == \E i \in 1..Len(l) : l[i] \in {"try", "try-with-resources"}

\* mutant: rule 21 without its conjunct index > 0
ResourceManagementReadsUnguarded(lines, index) ==
  LET line == lines[index + 1]
  IN IF OpensStream(line) /\ ~HasTry(line) THEN {index - 1} ELSE {}

\* rule 21: the indices k for which the condition calls lines[k].includes, after
\* the conjuncts to its left have held
ResourceManagementReads(lines, index) ==
  LET line == lines[index + 1]
  IN IF OpensStream(line) /\ ~HasTry(line) /\ index > 0 THEN {index - 1} ELSE {}

\* lines[k].includes on an element that does not exist: TypeError
ResourceManagementThrows(lines, index) ==
  \E k \in ResourceManagementReads(lines, index) : At(lines, k) = Undefined

\* rule 21
ResourceManagement(lines, index) ==
  /\ ResourceManagementReads(lines, index) # {}
  /\ \A k \in ResourceManagementReads(lines, index) : ~HasTry(At(lines, k))

\* lines.slice(index + 1, Math.min(index + 5, lines.length))
ReturnLookAhead(lines, index) ==
  Slice(lines, index + 1, Min(index + 5, Len(lines)))

\* rule 24
UnreachableAfterReturn(lines, index) ==
  LET line == lines[index + 1]
      ahead == ReturnLookAhead(lines, index)
  IN /\ Includes(line, <<"return">>)
     /\ \E k \in 1..Len(ahead) :
          /\ AssignOrCall(ahead[k])
          /\ ~Includes(ahead[k], LineCommentMarker)
          /\ Trim(ahead[k]) # <<>>

\* rule 26: the index for which the body evaluates lines[index + 1]?.includes
AnnotationPlacementReads(lines, index) ==
  IF Includes(lines[index + 1], <<"@Override">>) /\ index + 1 < Len(lines)
  THEN {index + 1}
  ELSE {}

\* rule 26
AnnotationPlacement(lines, index) ==
  /\ AnnotationPlacementReads(lines, index) # {}
  /\ \A k \in AnnotationPlacementReads(lines, index) :
       /\ ~IncludesIfAny(At(lines, k), <<"public">>)
       /\ ~IncludesIfAny(At(lines, k), <<"protected">>)

\* lines.slice(index + 1, index + 3).find(l => l.trim() &&
\*   !l.trim().startsWith('//') && !l.trim().startsWith('}')), as a sequence of
\* at most one line
NextCode(lines, index) ==
  LET found == SelectSeq(Slice(lines, index + 1, index + 3),
                         LAMBDA l : /\ Trim(l) # <<>>
                                    /\ ~StartsWith(Trim(l), LineCommentMarker)
                                    /\ ~StartsWith(Trim(l), <<"}">>))
  IN IF found = <<>> THEN <<>> ELSE <<found[1]>>

\* rule 28
UnreachableCode(lines, index) ==
  LET line == lines[index + 1]
      nextCode == NextCode(lines, index)
  IN /\ Includes(line, <<"return">>)
     /\ ~StartsWith(Trim(line), LineCommentMarker)
     /\ nextCode # <<>>
     /\ StartsWithWord(nextCode[1])

\* the findings rules 21, 24, 26 and 28 push for one line, in push order
WindowLineFindings(lines, index) ==
  LET lineNumber == index + 1
  IN Emit(ResourceManagement(lines, index),
          Finding(lineNumber, "error", "RESOURCE_MANAGEMENT"))
     \o Emit(UnreachableAfterReturn(lines, index),
             FindingWith(lineNumber, "warning", "UNREACHABLE_CODE",
                         "Code after return statement is unreachable"))
     \o Emit(AnnotationPlacement(lines, index),
             Finding(lineNumber, "info", "ANNOTATION_PLACEMENT"))
     \o Emit(UnreachableCode(lines, index),
             FindingWith(lineNumber, "warning", "UNREACHABLE_CODE",
                         "Unreachable code detected after return"))

\* rule 41: lines.some(...) goes over all the lines of the file
MissingSerialVersionUid(lines, index) ==
  /\ Includes(lines[index + 1], <<"Serializable">>)
  /\ ~\E k \in 1..Len(lines) : Includes(lines[k], <<"serialVersionUID">>)

\* the finding rule 41 pushes for one line
WholeFileLineFindings(lines, index) ==
  Emit(MissingSerialVersionUid(lines, index),
       Finding(index + 1, "warning", "MISSING_SERIALVERSIONUID"))

\* rule 76: line.includes('Thread.sleep') && filename.includes('Test')
FlakyTest(line, name) ==
  Includes(line, <<"Thread.sleep">>) /\ Includes(name, <<"Test">>)

\* rule 76 evaluates filename.includes on the value undefined: TypeError
FlakyTestThrows(line, name) ==
  Includes(line, <<"Thread.sleep">>) /\ name = Undefined

\* the findings rules 76-78 push for one line
LateLineFindings(lines, index, name) ==
  Emit(FlakyTest(lines[index + 1], name), Finding(index + 1, "warning", "FLAKY_TEST"))

\* ------------------------------------------------------------ line rules (React)
\* rule 1 of the React analyzer
ConsoleLog(lines, index) ==
  LET line == lines[index + 1]
  IN Includes(line, <<"console.log">>) /\ ~StartsWith(Trim(line), LineCommentMarker)

\* the findings the React rules before rule 18 push for one line
ReactLineFindings(lines, index) ==
  Emit(ConsoleLog(lines, index), Finding(index + 1, "warning", "CONSOLE_LOG"))

\* rule 21 of the React analyzer; lines[index - 1]?.includes('const')
ConsiderUseCallback(lines, index) ==
  LET line == lines[index + 1]
  IN /\ Includes(line, <<"function">>)
     /\ Includes(line, <<"(">>)
     /\ ~Includes(line, <<"useCallback">>)
     /\ IncludesIfAny(At(lines, index - 1), <<"const">>)

\* the findings the React rules from rule 18 on push for one line
ReactLateLineFindings(lines, index) ==
  Emit(ConsiderUseCallback(lines, index),
       Finding(index + 1, "info", "CONSIDER_USECALLBACK"))

\* rule 18 of the React analyzer starts with filename.endsWith('.tsx'), which
\* it evaluates on every line that reaches the rules: TypeError on undefined
ReactRuleThrows(name) == name = Undefined

\* ------------------------------------------------------------ one analyzer or the other
\* analyzer is "java" (JavaAnalyzer) or "react" (ReactAnalyzer)
CommentFindings(analyzer, blockComment, lineNumber) ==
  IF analyzer = "java"
  THEN AnalyzeBlockComment(blockComment, lineNumber)
  ELSE ReactAnalyzeBlockComment(blockComment, lineNumber)

\* a rule's condition throws on this line
RuleThrows(analyzer, lines, index, name) ==
  IF analyzer = "java"
  THEN ResourceManagementThrows(lines, index) \/ FlakyTestThrows(lines[index + 1], name)
  ELSE ReactRuleThrows(name)

\* the findings pushed before the rule that throws
FindingsBeforeThrow(analyzer, lines, index) ==
  IF analyzer = "java"
  THEN IF ResourceManagementThrows(lines, index)
       THEN LineFindings(lines, index)
       ELSE LineFindings(lines, index) \o WindowLineFindings(lines, index)
              \o WholeFileLineFindings(lines, index)
  ELSE ReactLineFindings(lines, index)

\* the findings all rules push for a line on which no rule throws
RuleFindings(analyzer, lines, index, name) ==
  IF analyzer = "java"
  THEN LineFindings(lines, index) \o WindowLineFindings(lines, index)
         \o WholeFileLineFindings(lines, index)
         \o LateLineFindings(lines, index, name)
  ELSE ReactLineFindings(lines, index) \o ReactLateLineFindings(lines, index)

\* ------------------------------------------------------------ block-comment tracker
\* One pass of the "Handle block comments" statement.  closed: the pass called
\* analyzeBlockComment, with arguments text and start.
\* mutant: the opening line's number is not recorded
TrackerStepStaleStart(line, lineNumber, inBlock, start, content) ==
  LET trimmedLine == Trim(line)
  IN IF StartsWith(trimmedLine, OpenMarker)
     THEN [inBlockComment |-> TRUE, blockCommentStart |-> start,
           blockCommentContent |-> line, closed |-> FALSE, text |-> <<>>]
     ELSE IF inBlock
     THEN LET acc == content \o <<NL>> \o line
          IN IF Includes(trimmedLine, CloseMarker)
             THEN [inBlockComment |-> FALSE, blockCommentStart |-> start,
                   blockCommentContent |-> <<>>, closed |-> TRUE, text |-> acc]
             ELSE [inBlockComment |-> TRUE, blockCommentStart |-> start,
                   blockCommentContent |-> acc, closed |-> FALSE, text |-> <<>>]
     ELSE [inBlockComment |-> FALSE, blockCommentStart |-> start,
           blockCommentContent |-> content, closed |-> FALSE, text |-> <<>>]

\* mutant: the closing line leaves the accumulator as it is
TrackerStepKeepingContent(line, lineNumber, inBlock, start, content) ==
  LET trimmedLine == Trim(line)
  IN IF StartsWith(trimmedLine, OpenMarker)
     THEN [inBlockComment |-> TRUE, blockCommentStart |-> lineNumber,
           blockCommentContent |-> line, closed |-> FALSE, text |-> <<>>]
     ELSE IF inBlock
     THEN LET acc == content \o <<NL>> \o line
          IN IF Includes(trimmedLine, CloseMarker)
             THEN [inBlockComment |-> FALSE, blockCommentStart |-> start,
                   blockCommentContent |-> acc, closed |-> TRUE, text |-> acc]
             ELSE [inBlockComment |-> TRUE, blockCommentStart |-> start,
                   blockCommentContent |-> acc, closed |-> FALSE, text |-> <<>>]
     ELSE [inBlockComment |-> FALSE, blockCommentStart |-> start,
           blockCommentContent |-> content, closed |-> FALSE, text |-> <<>>]

TrackerStep(line, lineNumber, inBlock, start, content) ==
  LET trimmedLine == Trim(line)
  IN IF StartsWith(trimmedLine, OpenMarker)
     THEN [inBlockComment |-> TRUE, blockCommentStart |-> lineNumber,
           blockCommentContent |-> line, closed |-> FALSE, text |-> <<>>]
     ELSE IF inBlock
     THEN LET acc == content \o <<NL>> \o line
          IN IF Includes(trimmedLine, CloseMarker)
             THEN [inBlockComment |-> FALSE, blockCommentStart |-> start,
                   blockCommentContent |-> <<>>, closed |-> TRUE, text |-> acc]
             ELSE [inBlockComment |-> TRUE, blockCommentStart |-> start,
                   blockCommentContent |-> acc, closed |-> FALSE, text |-> <<>>]
     ELSE [inBlockComment |-> FALSE, blockCommentStart |-> start,
           blockCommentContent |-> content, closed |-> FALSE, text |-> <<>>]

\* mutant: the early return is missing
WithheldNever(inBlock) == FALSE

\* if (inBlockComment) return;
Withheld(inBlock) == inBlock

\* ------------------------------------------------------------ state
VARIABLES
  lines,                \* content.split('\n')
  index,                \* 0-based index of the next line forEach visits
  inBlockComment,
  blockCommentStart,
  blockCommentContent,
  issues,
  pc,                   \* "scan" inside forEach, "done" after return issues
  classified,           \* history: numbers of the lines that reached the rules
  calls,                \* history: the calls of analyzeBlockComment
  openedAt,             \* history: line of the last change of inBlockComment to true
  closes,               \* history: number of changes of inBlockComment to false
  scanned,              \* history: the line numbers forEach passed to the callback
  filename,             \* analyze's second parameter
  analyzer,             \* "java" or "react": the class whose analyze runs
  files,                \* the driver's list of changed files, with the disk's state
  position,             \* number of files (of calls, of posts) finished
  allIssues,            \* the driver's aggregate (issues in analyzeFiles)
  results,              \* history: the outcome of each finished analyze call
  logged,               \* the diagnostics written to the console
  shown,                \* what displayIssues printed: the groups in print order
  exitCode,             \* Running until the process has ended
  verbose,              \* GithubService.verbose
  posted,               \* history: the requests sent to the hosting service
  escaped               \* exceptions the posting layer let through to its caller

driverVars == <<files, position, allIssues, results, logged, shown, exitCode>>
postVars == <<verbose, posted, escaped>>

vars ==
  <<lines, index, inBlockComment, blockCommentStart, blockCommentContent, issues,
    pc, classified, calls, openedAt, closes, scanned, filename, analyzer,
    files, position, allIssues, results, logged, shown, exitCode,
    verbose, posted, escaped>>

Running == -1

RECURSIVE Texts(_, _)
\* the texts of 1..n lines over pool
Texts(pool, n) ==
  IF n = 0 THEN {}
  ELSE LET shorter == Texts(pool, n - 1)
       IN {<<l>> : l \in pool} \cup shorter
          \cup {Append(t, l) : t \in {u \in shorter : Len(u) = n - 1}, l \in pool}

LinePool ==
  { <<>>,
    <<"/", "*">>,
    <<" ", "*", "/">>,
    <<"/", "*", " ", "FIXME", " ", "*", "/">>,
    <<"System.out.println", "(", "1000", ")">>,
    <<"System.out.println", " ", "*", "/">>,
    <<" ", "/", "*", "*", " ", "hack">>,
    <<"todo">>,
    <<"/", "/", " ", "TODO">> }

\* no driver runs
DriverIdle ==
  /\ files = <<>>
  /\ position = 0
  /\ allIssues = <<>>
  /\ results = <<>>
  /\ logged = <<>>
  /\ shown = <<>>
  /\ exitCode = Running

\* no posting runs
PostIdle ==
  /\ verbose = FALSE
  /\ posted = <<>>
  /\ escaped = <<>>

\* no scan has begun
ScanIdle ==
  /\ lines = <<>>
  /\ index = 0
  /\ inBlockComment = FALSE
  /\ blockCommentStart = 0
  /\ blockCommentContent = <<>>
  /\ issues = <<>>
  /\ classified = {}
  /\ calls = <<>>
  /\ openedAt = 0
  /\ closes = 0
  /\ scanned = <<>>
  /\ filename = <<>>
  /\ analyzer = "java"

\* analyze(content, filename) of the given analyzer has been entered
StartWith(text, name, an) ==
  /\ lines = text
  /\ index = 0
  /\ inBlockComment = FALSE
  /\ blockCommentStart = 0
  /\ blockCommentContent = <<>>
  /\ issues = <<>>
  /\ pc = "scan"
  /\ classified = {}
  /\ calls = <<>>
  /\ openedAt = 0
  /\ closes = 0
  /\ scanned = <<>>
  /\ filename = name
  /\ analyzer = an
  /\ DriverIdle
  /\ PostIdle

MainJava == <<"Main", ".java">>

Start(text) == StartWith(text, MainJava, "java")

Init == \E text \in Texts(LinePool, MaxLines) : Start(text)

\* one call of the forEach callback
ScanLine ==
  /\ pc = "scan"
  /\ index < Len(lines)
  /\ LET line == lines[index + 1]
         lineNumber == index + 1
         t == TrackerStep(line, lineNumber, inBlockComment, blockCommentStart,
                          blockCommentContent)
         commentFindings == CommentFindings(analyzer, t.text, t.blockCommentStart)
         afterTracker ==
           IF t.closed THEN issues \o WithFile(commentFindings, filename) ELSE issues
         throws ==
           ~Withheld(t.inBlockComment) /\ RuleThrows(analyzer, lines, index, filename)
     IN /\ inBlockComment' = t.inBlockComment
        /\ blockCommentStart' = t.blockCommentStart
        /\ blockCommentContent' = t.blockCommentContent
        /\ calls' = IF t.closed
                    THEN Append(calls, [text |-> t.text, start |-> t.blockCommentStart,
                                        at |-> lineNumber, opened |-> openedAt,
                                        findings |-> commentFindings])
                    ELSE calls
        /\ openedAt' = IF ~inBlockComment /\ t.inBlockComment THEN lineNumber ELSE openedAt
        /\ closes' = IF inBlockComment /\ ~t.inBlockComment THEN closes + 1 ELSE closes
        /\ scanned' = Append(scanned, lineNumber)
        /\ IF Withheld(t.inBlockComment)
           THEN /\ issues' = afterTracker
                /\ classified' = classified
           ELSE /\ issues' =
                     afterTracker
                       \o WithFile(IF throws
                                   THEN FindingsBeforeThrow(analyzer, lines, index)
                                   ELSE RuleFindings(analyzer, lines, index, filename),
                                   filename)
                /\ classified' = classified \cup {lineNumber}
        \* an exception leaves forEach and analyze: no later line is visited
        /\ index' = IF throws THEN index ELSE index + 1
        /\ pc' = IF throws THEN "threw" ELSE pc
  /\ UNCHANGED <<lines, filename, analyzer, driverVars, postVars>>

\* mutant: a comment still open at the end of the text is analysed
ReturnFlushing ==
  /\ pc = "scan"
  /\ index = Len(lines)
  /\ pc' = "done"
  /\ issues' = IF inBlockComment
               THEN issues
                      \o WithFile(CommentFindings(analyzer, blockCommentContent,
                                                  blockCommentStart), filename)
               ELSE issues
  /\ UNCHANGED <<lines, index, inBlockComment, blockCommentStart, blockCommentContent,
                 classified, calls, openedAt, closes, scanned, filename, analyzer,
                 driverVars, postVars>>

\* return issues
Return ==
  /\ pc = "scan"
  /\ index = Len(lines)
  /\ pc' = "done"
  /\ UNCHANGED <<lines, index, inBlockComment, blockCommentStart, blockCommentContent,
                 issues, classified, calls, openedAt, closes, scanned, filename,
                 analyzer, driverVars, postVars>>

Next == ScanLine \/ Return

Spec == Init /\ [][Next]_vars

\* ------------------------------------------------------------ repeated calls
\* mutant: issues is a field of the instance and outlives the call
EnterAnalyzeKeepingIssues(text, name, an) ==
  /\ lines' = text
  /\ filename' = name
  /\ analyzer' = an
  /\ index' = 0
  /\ inBlockComment' = FALSE
  /\ blockCommentStart' = 0
  /\ blockCommentContent' = <<>>
  /\ UNCHANGED issues

\* mutant: the tracker's state is a field of the instance and outlives the call
EnterAnalyzeKeepingTracker(text, name, an) ==
  /\ lines' = text
  /\ filename' = name
  /\ analyzer' = an
  /\ index' = 0
  /\ issues' = <<>>
  /\ UNCHANGED <<inBlockComment, blockCommentStart, blockCommentContent>>

\* entry of analyze(content, filename): the parameters and the locals declared
\* before forEach.  Neither analyzer class has a field, so the call starts from
\* these values on any instance.
EnterAnalyze(text, name, an) ==
  /\ lines' = text
  /\ filename' = name
  /\ analyzer' = an
  /\ index' = 0
  /\ inBlockComment' = FALSE
  /\ blockCommentStart' = 0
  /\ blockCommentContent' = <<>>
  /\ issues' = <<>>

\* the history of a scan starts anew
NewScan ==
  /\ classified' = {}
  /\ calls' = <<>>
  /\ openedAt' = 0
  /\ closes' = 0
  /\ scanned' = <<>>

\* A client that calls analyze again with the arguments of the call that has
\* returned (the test scripts call analyze this way, with a file name or none).
CallPool ==
  { <<>>,
    <<"Thread.sleep", "(", "1000", ")">>,
    <<"System.out.println">>,
    <<"System.err.println">>,
    <<"console.log">>,
    <<"/", "*">>,
    <<" ", "*", "/">> }

MainTestJava == <<"Main", "Test", ".java">>
CallNames == {Undefined, MainJava, MainTestJava}
Analyzers == {"java", "react"}

InitCalls ==
  \E text \in Texts(CallPool, MaxCallLines), name \in CallNames, an \in Analyzers :
    StartWith(text, name, an)

\* the call has returned its list; the client calls analyze again
CallAgain ==
  /\ pc = "done"
  /\ files = <<>>
  /\ Len(results) < MaxCalls - 1
  /\ results' = Append(results, [file |-> filename, outcome |-> "returned",
                                 issues |-> issues])
  /\ EnterAnalyze(lines, filename, analyzer)
  /\ NewScan
  /\ pc' = "scan"
  /\ UNCHANGED <<files, position, allIssues, logged, shown, exitCode, postVars>>

NextCalls == ScanLine \/ Return \/ CallAgain

SpecCalls == InitCalls /\ [][NextCalls]_vars

\* ------------------------------------------------------------ a whole call
RECURSIVE ScanFrom(_, _, _, _, _)
\* the calls of the forEach callback for the lines after line i, with the
\* locals of analyze in st
ScanFrom(an, text, name, i, st) ==
  IF i = Len(text)
  THEN [outcome |-> "returned", issues |-> st.issues,
        inBlockComment |-> st.inBlockComment]
  ELSE LET t == TrackerStep(text[i + 1], i + 1, st.inBlockComment,
                            st.blockCommentStart, st.blockCommentContent)
           afterTracker ==
             IF t.closed
             THEN st.issues
                    \o WithFile(CommentFindings(an, t.text, t.blockCommentStart), name)
             ELSE st.issues
           after(found) ==
             [inBlockComment |-> t.inBlockComment,
              blockCommentStart |-> t.blockCommentStart,
              blockCommentContent |-> t.blockCommentContent,
              issues |-> found]
       IN IF Withheld(t.inBlockComment)
          THEN ScanFrom(an, text, name, i + 1, after(afterTracker))
          ELSE IF RuleThrows(an, text, i, name)
          THEN [outcome |-> "threw", issues |-> <<>>, inBlockComment |-> FALSE]
          ELSE ScanFrom(an, text, name, i + 1,
                        after(afterTracker
                                \o WithFile(RuleFindings(an, text, i, name), name)))

\* what analyze(content, filename) returns on an instance that has analysed
\* nothing before
AnalyzeFresh(an, text, name) ==
  ScanFrom(an, text, name, 0,
           [inBlockComment |-> FALSE, blockCommentStart |-> 0,
            blockCommentContent |-> <<>>, issues |-> <<>>])

\* ------------------------------------------------------------ summary
\* issues.filter(i => i.severity === sev).length
CountSeverity(found, sev) == Len(SelectSeq(found, LAMBDA f : f.severity = sev))

\* mutant: the group of a file is replaced by the new finding
AddToGroupOverwrite(byFile, issue) ==
  IF \E g \in 1..Len(byFile) : byFile[g].file = issue.file
  THEN [g \in 1..Len(byFile) |->
          IF byFile[g].file = issue.file
          THEN [file |-> issue.file, issues |-> <<issue>>]
          ELSE byFile[g]]
  ELSE Append(byFile, [file |-> issue.file, issues |-> <<issue>>])

\* if (!byFile[issue.file]) byFile[issue.file] = []; byFile[issue.file].push(issue)
\* byFile is the sequence of the object's entries, in insertion order
AddToGroup(byFile, issue) ==
  IF \E g \in 1..Len(byFile) : byFile[g].file = issue.file
  THEN [g \in 1..Len(byFile) |->
          IF byFile[g].file = issue.file
          THEN [file |-> issue.file, issues |-> Append(byFile[g].issues, issue)]
          ELSE byFile[g]]
  ELSE Append(byFile, [file |-> issue.file, issues |-> <<issue>>])

RECURSIVE GroupFrom(_, _)
GroupFrom(found, byFile) ==
  IF found = <<>> THEN byFile
  ELSE GroupFrom(Tail(found), AddToGroup(byFile, Head(found)))

\* Object.entries(byFile) after the grouping loop
ByFile(found) == GroupFrom(found, <<>>)

\* displayIssues prints every group in full
DisplayIssues(found) == ByFile(found)

SummaryMaxPerFile == 5

\* the data createSummary renders
CreateSummary(found, fs) ==
  LET errors == CountSeverity(found, "error")
      warnings == CountSeverity(found, "warning")
      infos == CountSeverity(found, "info")
      total == Len(found)
      groups == IF total > 0 THEN ByFile(found) ELSE <<>>
  IN [filesAnalyzed |-> Len(fs),
      errors |-> errors, warnings |-> warnings, infos |-> infos, total |-> total,
      verdict |-> IF total = 0 THEN "great job"
                  ELSE IF errors = 0 THEN "no critical errors" ELSE "please fix",
      groups |->
        [g \in 1..Len(groups) |->
           [file |-> groups[g].file,
            errors |-> CountSeverity(groups[g].issues, "error"),
            warnings |-> CountSeverity(groups[g].issues, "warning"),
            listed |-> Slice(groups[g].issues, 0, SummaryMaxPerFile),
            more |-> IF Len(groups[g].issues) > SummaryMaxPerFile
                     THEN Len(groups[g].issues) - SummaryMaxPerFile ELSE 0]]]

\* ------------------------------------------------------------ git-diff driver
\* A changed file: its name, whether readFileSync can read it (a file deleted
\* by the pull request is listed by git diff and is not on disk), its content.
File(name, content) == [name |-> name, content |-> content]

FilePool ==
  { File(<<"A", ".java">>, << <<"System.out.println", "(", "1000", ")">>, <<"/", "*">> >>),
    File(<<"B", ".java">>, << <<"new BufferedReader">>, <<"new BufferedReader">> >>),
    File(<<"C", ".jsx">>, << <<"console.log">>, <<"/", "*">>, <<"FIXME">>, <<" ", "*", "/">> >>),
    File(<<"D", ".java">>, << <<>> >>),
    File(<<"E", ".java">>, << <<"/", "/", " ", "TODO">> >>) }

OnDisk(f, readable) == [name |-> f.name, content |-> f.content, readable |-> readable]

RECURSIVE FileLists(_)
\* the lists of at most n different changed files, each on disk or not
FileLists(n) ==
  IF n = 0 THEN {<<>>}
  ELSE LET shorter == FileLists(n - 1)
       IN shorter
          \cup {Append(l, OnDisk(f, r)) :
                  l \in {u \in shorter : Len(u) = n - 1},
                  f \in FilePool, r \in BOOLEAN}

HasDistinctNames(l) ==
  \A a \in 1..Len(l), b \in 1..Len(l) : a # b => l[a].name # l[b].name

\* ten changed files, five of which hold one line that yields an error finding
TenFileNames == <<"K1", "K2", "K3", "K4", "K5", "K6", "K7", "K8", "K9", "K10">>

TenFiles ==
  [k \in 1..10 |->
     OnDisk(File(<<TenFileNames[k], ".java">>,
                 IF k % 2 = 1 THEN << <<"new BufferedReader">> >> ELSE << <<>> >>),
            TRUE)]

\* the state after getChangedFiles
InitFiles ==
  /\ files \in {l \in FileLists(MaxFiles) : HasDistinctNames(l)} \cup {TenFiles}
  /\ position = 0
  /\ allIssues = <<>>
  /\ results = <<>>
  /\ logged = <<>>
  /\ shown = <<>>
  /\ exitCode = Running
  /\ pc = "loop"
  /\ ScanIdle
  /\ PostIdle

\* file.match(/\.(jsx?|tsx?)$/)
IsComponentFile(name) ==
  \E ext \in {".js", ".jsx", ".ts", ".tsx"} : EndsWith(name, <<ext>>)

IsJavaFile(name) == EndsWith(name, <<".java">>)

AnalyzerOf(name) == IF IsJavaFile(name) THEN "java" ELSE "react"

\* mutant: a failed file ends the loop
NextAfterCatchAbort(pos, n) == n

\* the catch block logs and the loop goes on with the next file
NextAfterCatch(pos, n) == pos + 1

\* mutant: a finding that differs from an earlier one of the file only in its
\* line is not pushed
PushDistinct(aggregate, fileIssues) ==
  aggregate
    \o SelectSeq(fileIssues,
                 LAMBDA f : \A h \in 1..Len(fileIssues) :
                              (fileIssues[h].rule = f.rule /\ fileIssues[h].file = f.file)
                                => fileIssues[h].line >= f.line)

\* if (fileIssues.length > 0) issues.push(...fileIssues)
Push(aggregate, fileIssues) ==
  IF Len(fileIssues) > 0 THEN aggregate \o fileIssues ELSE aggregate

Outcome(name, outcome, found, aggregate) ==
  [file |-> name, outcome |-> outcome, issues |-> found, aggregate |-> aggregate]

RECURSIVE Concatenated(_, _)
\* the lists of the first n outcomes, one after the other
Concatenated(outcomes, n) ==
  IF n = 0 THEN <<>> ELSE Concatenated(outcomes, n - 1) \o outcomes[n].issues

\* for (const file of files): the read of the next file, and the call of the
\* analyzer its extension selects or the catch block
NextFile ==
  /\ pc = "loop"
  /\ position < Len(files)
  /\ LET file == files[position + 1]
     IN IF ~file.readable
        THEN /\ logged' = Append(logged, [kind |-> "warning", file |-> file.name])
             /\ results' = Append(results, Outcome(file.name, "failed", <<>>, allIssues))
             /\ position' = NextAfterCatch(position, Len(files))
             /\ UNCHANGED <<lines, index, inBlockComment, blockCommentStart,
                            blockCommentContent, issues, pc, classified, calls,
                            openedAt, closes, scanned, filename, analyzer>>
        ELSE IF IsJavaFile(file.name) \/ IsComponentFile(file.name)
        THEN /\ EnterAnalyze(file.content, file.name, AnalyzerOf(file.name))
             /\ NewScan
             /\ pc' = "scan"
             /\ UNCHANGED <<logged, results, position>>
        ELSE /\ results' = Append(results, Outcome(file.name, "returned", <<>>, allIssues))
             /\ position' = position + 1
             /\ UNCHANGED <<logged, lines, index, inBlockComment, blockCommentStart,
                            blockCommentContent, issues, pc, classified, calls,
                            openedAt, closes, scanned, filename, analyzer>>
  /\ UNCHANGED <<files, allIssues, shown, exitCode, postVars>>

\* analyze has returned fileIssues; they are pushed to the aggregate
Collect ==
  /\ pc = "done"
  /\ position < Len(files)
  /\ allIssues' = Push(allIssues, issues)
  /\ results' = Append(results, Outcome(filename, "returned", issues, allIssues'))
  /\ position' = position + 1
  /\ pc' = "loop"
  /\ UNCHANGED <<lines, index, inBlockComment, blockCommentStart, blockCommentContent,
                 issues, classified, calls, openedAt, closes, scanned, filename,
                 analyzer, files, logged, shown, exitCode, postVars>>

\* analyzeFiles has returned to main, which prints the findings
Report ==
  /\ pc = "loop"
  /\ position = Len(files)
  /\ shown' = IF Len(allIssues) > 0 THEN DisplayIssues(allIssues) ELSE <<>>
  /\ pc' = "end"
  /\ UNCHANGED <<lines, index, inBlockComment, blockCommentStart, blockCommentContent,
                 issues, classified, calls, openedAt, closes, scanned, filename,
                 analyzer, files, position, allIssues, results, logged, exitCode,
                 postVars>>

\* main is a plain function (not async) and has returned undefined, so
\* main().catch reads a property of undefined: the TypeError is uncaught and the
\* process ends with code 1
ExitAfterMain == 1

\* main().catch(...)
Exit ==
  /\ pc = "end"
  /\ exitCode' = ExitAfterMain
  /\ pc' = "exited"
  /\ UNCHANGED <<lines, index, inBlockComment, blockCommentStart, blockCommentContent,
                 issues, classified, calls, openedAt, closes, scanned, filename,
                 analyzer, files, position, allIssues, results, logged, shown,
                 postVars>>

NextFiles == NextFile \/ ScanLine \/ Return \/ Collect \/ Report \/ Exit

SpecFiles == InitFiles /\ [][NextFiles]_vars

\* ------------------------------------------------------------ pull-request driver
\* main of the pull-request driver (index.js 28-99; the same loop in part_002
\* 57-88).  The files are those the pull request lists, with any extension.
Readme == File(<<"README", ".md">>, << <<"System.out.println">>, <<"console.log">> >>)

MainFilePool == FilePool \cup {Readme}

RECURSIVE MainFileLists(_)
\* the lists of at most n listed files, each on disk or not
MainFileLists(n) ==
  IF n = 0 THEN {<<>>}
  ELSE LET shorter == MainFileLists(n - 1)
       IN shorter
          \cup {Append(l, OnDisk(f, r)) :
                  l \in {u \in shorter : Len(u) = n - 1},
                  f \in MainFilePool, r \in BOOLEAN}

\* the state after octokit.pulls.listFiles
InitMain ==
  /\ files \in {l \in MainFileLists(MaxFiles) : HasDistinctNames(l)}
  /\ position = 0
  /\ allIssues = <<>>
  /\ results = <<>>
  /\ logged = <<>>
  /\ shown = <<>>
  /\ exitCode = Running
  /\ pc = "main"
  /\ ScanIdle
  /\ PostIdle

\* mutant: every file that is not a Java file goes to the React analyzer
SelectedNeverNone(name) == IF IsJavaFile(name) THEN "java" ELSE "react"

\* if (filename.endsWith('.java')) ... else if (filename.match(/\.(jsx?|tsx?)$/)) ...
\* "none": neither branch is taken
Selected(name) ==
  IF IsJavaFile(name) THEN "java"
  ELSE IF IsComponentFile(name) THEN "react"
  ELSE "none"

\* the name of the class the module of an analyzer exports
AnalyzerClass(an) == IF an = "java" THEN "JavaAnalyzer" ELSE "ReactAnalyzer"

\* analyze is declared in the class body without static: the exported class
\* itself has no property analyze
ClassHasStaticAnalyze == FALSE

\* JavaAnalyzer.analyze(fileContent, filename) and ReactAnalyzer.analyze(...),
\* called on the exported class: a call of undefined throws a TypeError
StaticAnalyze(an, text, name) ==
  IF ClassHasStaticAnalyze
  THEN AnalyzeFresh(an, text, name)
  ELSE [outcome |-> "threw", issues |-> <<>>, inBlockComment |-> FALSE]

\* result.issues, for the array analyze returns: an array has no property
\* issues
IssuesProperty(result) == Undefined

\* if (result.issues && result.issues.length > 0) allIssues.push(...result.issues)
MainPush(aggregate, result) ==
  IF IssuesProperty(result) # Undefined /\ Len(IssuesProperty(result)) > 0
  THEN aggregate \o IssuesProperty(result)
  ELSE aggregate

\* one pass of for (const file of files), with its try/catch
MainFile ==
  /\ pc = "main"
  /\ position < Len(files)
  /\ LET file == files[position + 1]
         an == Selected(file.name)
         result == StaticAnalyze(an, file.content, file.name)
     IN IF ~file.readable
        THEN \* fs.existsSync is false: continue
             /\ logged' = Append(logged, [kind |-> "File not found on disk",
                                          file |-> file.name, message |-> <<>>])
             /\ results' = Append(results, Outcome(file.name, "missing", <<>>, allIssues))
             /\ UNCHANGED allIssues
        ELSE IF an = "none"
        THEN /\ results' = Append(results, Outcome(file.name, "returned", <<>>, allIssues))
             /\ UNCHANGED <<logged, allIssues>>
        ELSE IF result.outcome = "threw"
        THEN \* catch (err): console.error('Error analyzing', err.message)
             /\ logged' = Append(logged,
                                 [kind |-> "Error analyzing", file |-> file.name,
                                  message |-> <<AnalyzerClass(an), ".analyze is not a function">>])
             /\ results' = Append(results, Outcome(file.name, "failed", <<>>, allIssues))
             /\ UNCHANGED allIssues
        ELSE /\ allIssues' = MainPush(allIssues, result.issues)
             /\ results' = Append(results,
                                  Outcome(file.name, "returned", result.issues, allIssues'))
             /\ UNCHANGED logged
  /\ position' = position + 1
  /\ UNCHANGED <<lines, index, inBlockComment, blockCommentStart, blockCommentContent,
                 issues, pc, classified, calls, openedAt, closes, scanned, filename,
                 analyzer, files, shown, exitCode, postVars>>

\* the loop is over; main goes on to the summary
MainLoopEnd ==
  /\ pc = "main"
  /\ position = Len(files)
  /\ pc' = "post"
  /\ UNCHANGED <<lines, index, inBlockComment, blockCommentStart, blockCommentContent,
                 issues, classified, calls, openedAt, closes, scanned, filename,
                 analyzer, driverVars, postVars>>

\* main resolves; nothing has set an exit code
ExitAfterResolve == 0

MainReturn ==
  /\ pc = "post"
  /\ posted # <<>>
  /\ pc' = "exited"
  /\ exitCode' = ExitAfterResolve
  /\ UNCHANGED <<lines, index, inBlockComment, blockCommentStart, blockCommentContent,
                 issues, classified, calls, openedAt, closes, scanned, filename,
                 analyzer, files, position, allIssues, results, logged, shown,
                 postVars>>

\* ------------------------------------------------------------ posting layer
\* GithubService.formatInlineComment: the data the comment's text is made of
FormatInlineComment(issue) ==
  [emoji |-> CASE issue.severity = "error" -> "cross"
               [] issue.severity = "warning" -> "warning sign"
               [] issue.severity = "info" -> "information"
               [] OTHER -> "speech balloon",
   rule |-> issue.rule,
   severity |-> issue.severity]

\* The state after an analysis of at most one changed file: the aggregate is
\* final, and requests to the hosting service follow.  The service accepts a
\* request or rejects it (authorization, rate limit).
InitPost ==
  /\ files \in {<<>>} \cup {<<OnDisk(f, TRUE)>> : f \in FilePool}
  /\ position = Len(files)
  /\ results = [k \in 1..Len(files) |->
                  LET found == AnalyzeFresh(AnalyzerOf(files[k].name), files[k].content,
                                            files[k].name).issues
                  IN Outcome(files[k].name, "returned", found, found)]
  /\ allIssues = Concatenated(results, Len(results))
  /\ logged = <<>>
  /\ shown = <<>>
  /\ exitCode = Running
  /\ pc = "post"
  /\ verbose \in BOOLEAN
  /\ posted = <<>>
  /\ escaped = <<>>
  /\ ScanIdle

Request(op, body, accepted) == [op |-> op, body |-> body, accepted |-> accepted]

\* GithubService.postInlineComment(owner, repo, prNumber, issue)
PostInlineComment ==
  /\ pc = "post"
  /\ Len(posted) < MaxPosts
  /\ \E j \in 1..Len(allIssues), accepted \in BOOLEAN :
       LET issue == allIssues[j]
       IN /\ posted' = Append(posted,
                              Request("createReviewComment",
                                      [path |-> issue.file, line |-> issue.line,
                                       body |-> FormatInlineComment(issue)],
                                      accepted))
          /\ logged' = IF ~accepted /\ verbose
                       THEN Append(logged, [kind |-> "Failed to post inline comment",
                                            file |-> issue.file, at |-> Len(posted) + 1])
                       ELSE logged
  /\ UNCHANGED <<lines, index, inBlockComment, blockCommentStart, blockCommentContent,
                 issues, pc, classified, calls, openedAt, closes, scanned, filename,
                 analyzer, files, position, allIssues, results, shown, exitCode,
                 verbose, escaped>>

\* GithubService.postComment(owner, repo, prNumber, body)
PostComment ==
  /\ pc = "post"
  /\ Len(posted) < MaxPosts
  /\ \E accepted \in BOOLEAN :
       /\ posted' = Append(posted,
                           Request("createComment", CreateSummary(allIssues, files),
                                   accepted))
       /\ logged' = IF ~accepted /\ verbose
                    THEN Append(logged, [kind |-> "Failed to post comment",
                                         file |-> <<>>, at |-> Len(posted) + 1])
                    ELSE logged
       \* throw error
       /\ escaped' = IF accepted THEN escaped ELSE Append(escaped, Len(posted) + 1)
  /\ UNCHANGED <<lines, index, inBlockComment, blockCommentStart, blockCommentContent,
                 issues, pc, classified, calls, openedAt, closes, scanned, filename,
                 analyzer, files, position, allIssues, results, shown, exitCode,
                 verbose>>

\* main of the pull-request driver: createSummary, then octokit's createComment
\* inside main's own try/catch
PostSummary ==
  /\ pc = "post"
  /\ Len(posted) < MaxPosts
  /\ \E accepted \in BOOLEAN :
       /\ posted' = Append(posted,
                           Request("createComment", CreateSummary(allIssues, files),
                                   accepted))
       /\ logged' = IF ~accepted
                    THEN Append(logged, [kind |-> "Failed to post comment",
                                         file |-> <<>>, at |-> Len(posted) + 1])
                    ELSE logged
  /\ UNCHANGED <<lines, index, inBlockComment, blockCommentStart, blockCommentContent,
                 issues, pc, classified, calls, openedAt, closes, scanned, filename,
                 analyzer, files, position, allIssues, results, shown, exitCode,
                 verbose, escaped>>

NextPost == PostInlineComment \/ PostComment \/ PostSummary

\* main posts one summary
MainPostSummary == posted = <<>> /\ PostSummary

NextMain == MainFile \/ MainLoopEnd \/ MainPostSummary \/ MainReturn

SpecMain == InitMain /\ [][NextMain]_vars

SpecPost == InitPost /\ [][NextPost]_vars

\* ------------------------------------------------------------ look-ahead texts
\* Texts of blank lines with one line that opens a resource (with or without a
\* cleanup call on the same line) and at most one line that holds a cleanup call.
Opener == <<"new BufferedReader">>
OpenerWithCleanup == <<"new BufferedReader", " ", "close()">>
Cleanup == <<"close()">>

WindowText(n, o, opener, c) ==
  [k \in 1..n |-> IF k = o THEN opener ELSE IF k = c THEN Cleanup ELSE <<>>]

\* c = 0: no cleanup line
WindowTexts ==
  {WindowText(n, o, opener, c) :
     n \in 1..MaxWindowLines, o \in 1..MaxWindowLines,
     opener \in {Opener, OpenerWithCleanup}, c \in 0..MaxWindowLines}

InitWindow == \E text \in {t \in WindowTexts : \E k \in 1..Len(t) : t[k] # <<>>} : Start(text)

SpecWindow == InitWindow /\ [][Next]_vars

\* ------------------------------------------------------------ texts for the ends of the array
\* Java lines for the rules that read a neighbour or a short window (21, 24,
\* 26, 28) and React lines for rule 21 of the React analyzer.
EdgePool ==
  { <<>>,
    <<"return">>,
    <<"run", "(", ")">>,
    <<"Socket">>,
    <<"try">>,
    <<"@Override">> }

ReactEdgePool ==
  { <<>>,
    <<"const">>,
    <<"function", " ", "run", "(", ")">> }

ComponentJsx == <<"C", ".jsx">>

InitEdges ==
  \/ \E text \in Texts(EdgePool, MaxEdgeLines) : StartWith(text, MainJava, "java")
  \/ \E text \in Texts(ReactEdgePool, MaxEdgeLines) : StartWith(text, ComponentJsx, "react")

SpecEdges == InitEdges /\ [][Next]_vars

\* ------------------------------------------------------------ texts with a cleanup call in a comment
\* Lines that open a resource, hold a cleanup call, open or close a block
\* comment, or are empty.
CommentedPool ==
  { <<>>,
    <<"new BufferedReader">>,
    <<"close()">>,
    <<"/", "*">>,
    <<" ", "*", "/">> }

InitCommented == \E text \in Texts(CommentedPool, MaxLines) : Start(text)

SpecCommented == InitCommented /\ [][Next]_vars

\* ------------------------------------------------------------ texts with a far line
\* Texts of empty lines with one line that names Serializable and at most one
\* line that declares serialVersionUID, at any distance from it.
FarText(n, o, c) ==
  [k \in 1..n |-> IF k = o THEN <<"Serializable">>
                  ELSE IF k = c THEN <<"serialVersionUID">> ELSE <<>>]

\* c = 0: no line declares serialVersionUID
FarTexts ==
  {FarText(n, o, c) : n \in 1..MaxWindowLines, o \in 1..MaxWindowLines,
                      c \in 0..MaxWindowLines}

InitFar == \E text \in {t \in FarTexts : \E k \in 1..Len(t) : t[k] # <<>>} : Start(text)

SpecFar == InitFar /\ [][Next]_vars

\* ------------------------------------------------------------ claims
IsLineRule(f) == f.rule \notin CommentRules \cup ReactCommentRules
LineNumbers == 1..Len(lines)

OpensComment(n) == StartsWith(Trim(lines[n]), OpenMarker)
HasClose(n) == Includes(lines[n], CloseMarker)
\* some rule of the catalog matches line n
Triggers(n) == \E r \in 1..Len(Catalog) : Applies(Catalog[r], lines, n - 1)
LineRuleFindingAt(n) == \E j \in 1..Len(issues) : IsLineRule(issues[j]) /\ issues[j].line = n

\* line i lies strictly between the opening line o and the closing line c
StrictlyInside(o, i, c) ==
  /\ o < i /\ i < c
  /\ OpensComment(o)
  /\ \A k \in o..(c - 1) : ~HasClose(k)
  /\ HasClose(c)

\* C1: a line strictly between the line that opens a block comment and the line
\* that closes it never reaches the line rules, and no line-rule finding carries
\* its number.
C1_Containment ==
  \A i \in LineNumbers :
    (i \in classified \/ LineRuleFindingAt(i))
      => ~\E o \in 1..(i - 1), c \in (i + 1)..Len(lines) : StrictlyInside(o, i, c)

\* the scan is over and a line strictly inside a closed comment holds text that
\* matches a rule
C1_Witness ==
  /\ pc = "done"
  /\ \E o \in LineNumbers, i \in LineNumbers, c \in LineNumbers :
       StrictlyInside(o, i, c) /\ Triggers(i) /\ \E k \in 1..Len(calls) : calls[k].at = c

\* the line opens a block comment and closes it
SameLineComment(n) ==
  LET t == Trim(lines[n])
  IN StartsWith(t, OpenMarker) /\ Includes(SubSeq(t, 3, Len(t)), CloseMarker)

HasMarker(n) == Includes(lines[n], OpenMarker) \/ Includes(lines[n], CloseMarker)

\* C2: a block comment opened (in mode outside) and closed on one line is closed
\* on that line: after the line the tracker is outside and analyzeBlockComment
\* has been called for it, and the next line reaches the line rules.
C2_SameLineCommentCloses ==
  /\ (index >= 1 /\ SameLineComment(index) /\ openedAt = index)
       => /\ ~inBlockComment
          /\ \E k \in 1..Len(calls) : calls[k].at = index
  /\ (index >= 2 /\ SameLineComment(index - 1) /\ openedAt = index - 1
         /\ ~HasMarker(index))
       => index \in classified

\* C3: no line-rule finding carries the number of the line on which a comment
\* closed.
C3_ClosingLineWithheld ==
  \A k \in 1..Len(calls) : ~LineRuleFindingAt(calls[k].at)

RECURSIVE Join(_, _, _)
\* lines a..b joined by newlines
Join(text, a, b) ==
  IF a > b THEN <<>>
  ELSE IF a = b THEN text[a]
  ELSE text[a] \o <<NL>> \o Join(text, a + 1, b)

\* C4: while the tracker is inside, the recorded opening line is the line on
\* which it went inside and the accumulator holds every line consumed since;
\* the text handed to analyzeBlockComment is all lines from that opening line
\* through the closing line.
C4_OpeningHonouredOnlyOutside ==
  /\ inBlockComment
       => /\ blockCommentStart = openedAt
          /\ blockCommentContent = Join(lines, openedAt, index)
  /\ \A k \in 1..Len(calls) :
       /\ calls[k].start = calls[k].opened
       /\ calls[k].text = Join(lines, calls[k].opened, calls[k].at)

\* C5: analyzeBlockComment is called once per change from inside to outside, and
\* every comment finding carries the number of the line on which a closed
\* comment was opened.
C5_CommentFindingsAtOpeningLine ==
  /\ Len(calls) = closes
  /\ \A j \in 1..Len(issues) :
       ~IsLineRule(issues[j])
         => \E k \in 1..Len(calls) : calls[k].opened = issues[j].line

\* C6: when the scan ends inside a block comment, analyzeBlockComment was not
\* called for that comment and no finding carries the number of its opening
\* line or of a later line; after the last line of such a text analyze returns.
C6_UnterminatedDiscarded ==
  /\ (pc = "done" /\ inBlockComment)
       => /\ \A k \in 1..Len(calls) : calls[k].at < openedAt
          /\ \A j \in 1..Len(issues) : issues[j].line < openedAt
  /\ (pc = "scan" /\ inBlockComment /\ index = Len(lines)) => ENABLED Return

\* the scan ended inside a comment whose lines hold text that matches a line
\* rule and text that matches a comment check
C6_Witness ==
  /\ pc = "done" /\ inBlockComment
  /\ \A n \in LineNumbers : n >= openedAt => ~HasClose(n)
  /\ \E n \in LineNumbers : n > openedAt /\ Triggers(n)
  /\ \E n \in LineNumbers : n >= openedAt /\ TemporaryWorkaround(lines[n])

RulesOf(findings) == {findings[j].rule : j \in 1..Len(findings)}

\* the condition of each comment check, as analyzeBlockComment tests it
CommentCheckHolds(rule, blockComment) ==
  CASE rule = "EMPTY_BLOCK_COMMENT" -> LooksEmpty(blockComment)
    [] rule = "INCOMPLETE_TODO_BLOCK" -> IncompleteTodoBlock(blockComment)
    [] rule = "FIXME_COMMENT" -> FixmeComment(blockComment)
    [] rule = "TEMPORARY_WORKAROUND" -> TemporaryWorkaround(blockComment)
    [] rule = "INCOMPLETE_JAVADOC" -> IncompleteJavadoc(blockComment)

CommentCheckOrder ==
  <<"EMPTY_BLOCK_COMMENT", "INCOMPLETE_TODO_BLOCK", "FIXME_COMMENT",
    "TEMPORARY_WORKAROUND", "INCOMPLETE_JAVADOC">>

PositionIn(seq, x) == CHOOSE p \in 1..Len(seq) : seq[p] = x

\* C7: for every closed comment each of the five checks fires exactly when its
\* own condition holds, whatever the other checks did, and the findings come in
\* the listed order.
C7_CommentChecksIndependent ==
  \A k \in 1..Len(calls) :
    LET f == calls[k].findings
    IN /\ \A r \in CommentRules :
            (r \in RulesOf(f)) <=> CommentCheckHolds(r, calls[k].text)
       /\ \A a \in 1..Len(f), b \in 1..Len(f) :
            a < b => PositionIn(CommentCheckOrder, f[a].rule)
                       < PositionIn(CommentCheckOrder, f[b].rule)

\* the comment's text without its markers is blank
BlankBody(blockComment) ==
  \A i \in 1..Len(blockComment) : IsSpace(blockComment[i]) \/ blockComment[i] \in {"/", "*"}

\* C8: EMPTY_BLOCK_COMMENT is emitted for a closed comment exactly when its body,
\* without the markers, is blank.
C8_EmptyIffBlankBody ==
  \A k \in 1..Len(calls) :
    ("EMPTY_BLOCK_COMMENT" \in RulesOf(calls[k].findings)) <=> BlankBody(calls[k].text)

OpensResource(n) ==
  \/ Includes(lines[n], <<"new FileInputStream">>)
  \/ Includes(lines[n], <<"new BufferedReader">>)
  \/ Includes(lines[n], <<"getConnection">>)

HasCleanup(n) ==
  \/ Includes(lines[n], <<"close()">>)
  \/ Includes(lines[n], <<"try-with-resources">>)

FindingAt(rule, n) ==
  \E j \in 1..Len(issues) : issues[j].rule = rule /\ issues[j].line = n

\* C9: RESOURCE_LEAK is reported on a line that opens a resource exactly when
\* none of the next 10 lines (i+1 .. min(len, i+10)) holds a cleanup call; line i
\* itself is not consulted.
C9_LeakLeadingWindow ==
  \A n \in classified :
    OpensResource(n)
      => (FindingAt("RESOURCE_LEAK", n)
            <=> ~\E m \in (n + 1)..Min(Len(lines), n + LeakWindow) : HasCleanup(m))

\* the findings of the line rules for line n, in the order of issues
RECURSIVE LineRuleFindingsOf(_, _)
LineRuleFindingsOf(found, n) ==
  IF found = <<>> THEN <<>>
  ELSE IF IsLineRule(Head(found)) /\ Head(found).line = n
       THEN <<Head(found).rule>> \o LineRuleFindingsOf(Tail(found), n)
       ELSE LineRuleFindingsOf(Tail(found), n)

C11_LineInRange ==
  \A j \in 1..Len(issues) :
    /\ issues[j].line \in Int
    /\ 1 <= issues[j].line
    /\ issues[j].line <= Len(lines)

\* analyze has returned a comment finding and line-rule findings on the first
\* and on the last line of the text
C11_Witness ==
  /\ pc = "done"
  /\ \E j \in 1..Len(issues) : ~IsLineRule(issues[j])
  /\ LineRuleFindingAt(1)
  /\ Len(lines) > 1 /\ LineRuleFindingAt(Len(lines))

\* C12: the findings of one scan are in non-decreasing order of line number,
\* the comment findings (pushed when the comment closes, with the number of the
\* opening line) included.
C12_NonDecreasingLines ==
  \A a \in 1..Len(issues), b \in 1..Len(issues) :
    a < b => issues[a].line <= issues[b].line

\* analyze has returned a line-rule finding, then the finding of a comment that
\* closed on a later line than the one it carries, then a line-rule finding
C12_Witness ==
  /\ pc = "done"
  /\ \E a \in 1..Len(issues), b \in 1..Len(issues), c \in 1..Len(issues) :
       /\ a < b /\ b < c
       /\ IsLineRule(issues[a]) /\ ~IsLineRule(issues[b]) /\ IsLineRule(issues[c])
       /\ \E k \in 1..Len(calls) :
            calls[k].start = issues[b].line /\ calls[k].at > issues[b].line

\* C13: a call of analyze with the text and the file name of an earlier call on
\* the instance returns the list the earlier call returned, element by element
\* and in the same order (an instance has no state, so a second instance
\* behaves as the first).
C13_Idempotent ==
  pc = "done" => \A k \in 1..Len(results) : results[k].issues = issues

\* the second call has returned; the list is not empty and the text ends inside
\* a block comment that never closes
C13_Witness ==
  /\ pc = "done"
  /\ Len(results) >= 1
  /\ issues # <<>>
  /\ inBlockComment

C14_TrackerStateFileLocal ==
  /\ \A k \in 1..Len(results) :
       results[k].outcome = "returned"
         => results[k].issues
              = AnalyzeFresh(AnalyzerOf(files[k].name), files[k].content,
                             files[k].name).issues
  /\ pc = "done" => scanned = [n \in 1..Len(lines) |-> n]
  /\ Len(results) = position

\* a file that yields findings has been analysed right after a file that ended
\* inside a block comment that never closes
C14_Witness ==
  \E k \in 2..Len(results) :
    /\ files[k - 1].readable
    /\ AnalyzeFresh(AnalyzerOf(files[k - 1].name), files[k - 1].content,
                    files[k - 1].name).inBlockComment
    /\ results[k].outcome = "returned"
    /\ results[k].issues # <<>>

IsPrefix(a, b) == Len(a) <= Len(b) /\ SubSeq(b, 1, Len(a)) = a

\* C16: a file that cannot be read contributes no finding and leaves the
\* aggregate as it was, every file of the list gets its turn (each readable one
\* is analysed) and the run reaches its end with the findings of the other
\* files.
C16_FailedFileSkipped ==
  /\ Len(results) = position
  /\ \A k \in 1..Len(results) :
       /\ results[k].file = files[k].name
       /\ IsPrefix(results[k].aggregate, allIssues)
       /\ files[k].readable => results[k].outcome = "returned"
       /\ ~files[k].readable =>
            /\ results[k].outcome = "failed"
            /\ results[k].aggregate = IF k = 1 THEN <<>> ELSE results[k - 1].aggregate
            /\ \A j \in 1..Len(allIssues) : allIssues[j].file # files[k].name
  /\ pc \in {"end", "exited"} => position = Len(files)

\* the run has ended; a file that could not be read stood between a file with
\* findings and another file with findings
C16_Witness ==
  /\ pc = "end"
  /\ \E k \in 2..(Len(results) - 1) :
       /\ results[k].outcome = "failed"
       /\ results[k - 1].issues # <<>>
       /\ results[k + 1].issues # <<>>

\* C17: the aggregate is the concatenation, in the order of the file list, of
\* the lists analyze returned for the files processed so far: nothing is
\* dropped, reordered or merged.
C17_AggregateIsConcatenation ==
  /\ allIssues = Concatenated(results, Len(results))
  /\ \A k \in 1..Len(results) :
       /\ results[k].file = files[k].name
       /\ results[k].outcome = "returned"
            => results[k].issues
                 = AnalyzeFresh(AnalyzerOf(files[k].name), files[k].content,
                                files[k].name).issues

\* the run has ended with findings of two files, two of which differ only in
\* their line
C17_Witness ==
  /\ pc = "end"
  /\ \E a \in 1..Len(allIssues), b \in 1..Len(allIssues) :
       /\ allIssues[a].file = allIssues[b].file
       /\ allIssues[a].rule = allIssues[b].rule
       /\ allIssues[a].severity = allIssues[b].severity
       /\ allIssues[a].line # allIssues[b].line
  /\ \E a \in 1..Len(allIssues) : allIssues[a].file # allIssues[1].file

\* C18: the counts of errors, warnings and infos of the summary add up to its
\* total, the number of findings; the grouping has one key for each file with a
\* finding and no other, each mapped to the file's findings in the order of the
\* aggregate; displayIssues prints these groups.
C18_SummaryOfAggregate ==
  LET summary == CreateSummary(allIssues, files)
      byFile == ByFile(allIssues)
  IN /\ summary.errors + summary.warnings + summary.infos = summary.total
     /\ summary.total = Len(allIssues)
     /\ \A a \in 1..Len(byFile), b \in 1..Len(byFile) :
          a # b => byFile[a].file # byFile[b].file
     /\ {byFile[g].file : g \in 1..Len(byFile)}
          = {allIssues[j].file : j \in 1..Len(allIssues)}
     /\ \A g \in 1..Len(byFile) :
          /\ byFile[g].issues # <<>>
          /\ byFile[g].issues
               = SelectSeq(allIssues, LAMBDA f : f.file = byFile[g].file)
     /\ Len(summary.groups) = Len(byFile)
     /\ (pc \in {"end", "exited"} /\ allIssues # <<>>) => shown = byFile

\* the run over ten files, five of which have one error finding each, has
\* ended: the error count is 5 and the grouping has five keys
C18_Witness ==
  /\ pc = "end"
  /\ Len(files) = 10
  /\ CreateSummary(allIssues, files).errors = 5
  /\ Len(ByFile(allIssues)) = 5
  /\ Len(shown) = 5

\* C20: the process ends with a non-zero exit code exactly when the aggregate
\* holds a finding of severity error.
C20_ExitCodeReflectsErrors ==
  pc = "exited"
    => (exitCode # 0 <=> \E j \in 1..Len(allIssues) : allIssues[j].severity = "error")

\* C19: no request the hosting service rejects makes the posting layer throw to
\* its caller; every rejected request is logged by the posting layer; and the
\* aggregate computed before posting stays what the analysis returned.
C19_PostFailureContained ==
  /\ escaped = <<>>
  /\ \A k \in 1..Len(posted) :
       ~posted[k].accepted => \E d \in 1..Len(logged) : logged[d].at = k
  /\ pc = "post" => allIssues = Concatenated(results, Len(results))

\* ------------------------------------------------------------ C30
\* C30: at every line boundary the tracker is inside a block comment exactly
\* when its accumulator is non-empty; while it is inside, the recorded opening
\* line number is at least 1 and at most the number of the last consumed line;
\* before the first line the tracker is outside with an empty accumulator.
C30_TrackerWellFormed ==
  pc = "scan" =>
    /\ inBlockComment <=> blockCommentContent # <<>>
    /\ inBlockComment => 1 <= blockCommentStart /\ blockCommentStart <= index
    /\ index = 0 => ~inBlockComment /\ blockCommentContent = <<>>

\* the tracker has closed one comment and is inside a later one
C30_Witness ==
  /\ pc = "scan"
  /\ closes >= 1
  /\ inBlockComment
  /\ blockCommentStart > 1
  /\ blockCommentStart < index

\* ------------------------------------------------------------ C26, C27
\* the empty content: no lexeme at all
EmptyContent == <<>>

\* C26: for the empty content analyze returns an empty list, in the Java and
\* in the React analyzer and under every file name (a string).
C26_EmptyContentNoFindings ==
  (lines = SplitLines(EmptyContent) /\ filename # Undefined) =>
    /\ pc # "threw"
    /\ issues = <<>>
    /\ pc = "done" => AnalyzeFresh(analyzer, SplitLines(EmptyContent), filename).issues = <<>>

\* the React analyzer has returned from the empty content of a test file
C26_Witness ==
  /\ pc = "done"
  /\ lines = SplitLines(EmptyContent)
  /\ analyzer = "react"
  /\ filename = MainTestJava
  /\ scanned = <<1>>
  /\ issues = <<>>

\* a println call on line 1, followed by an empty line
PrintlnContents ==
  { <<"System.out.println", NL>>, <<"System.err.println", NL>> }

\* C27: a Java text that is a System.out.println or System.err.println call on
\* line 1 followed by an empty line yields exactly one finding:
\* USE_LOGGING_FRAMEWORK, warning, line 1.
C27_PrintlnOnly ==
  (/\ pc = "done"
   /\ analyzer = "java"
   /\ \E content \in PrintlnContents : lines = SplitLines(content)) =>
    /\ Len(issues) = 1
    /\ issues[1].rule = "USE_LOGGING_FRAMEWORK"
    /\ issues[1].severity = "warning"
    /\ issues[1].line = 1
    /\ issues[1].file = filename

\* the Java analyzer has returned from the System.err.println text
C27_Witness ==
  /\ pc = "done"
  /\ analyzer = "java"
  /\ lines = SplitLines(<<"System.err.println", NL>>)
  /\ scanned = <<1, 2>>
  /\ Len(issues) = 1

\* ------------------------------------------------------------ C24
\* C24: the rules are functions of the line and its window only: the same text
\* analysed under two file names of the same language yields lists that are
\* equal except for the file field of the findings.
C24_FileNameIndependent ==
  (pc = "done" /\ filename # Undefined) =>
    \A other \in CallNames \ {Undefined} :
      LET again == AnalyzeFresh(analyzer, lines, other)
      IN /\ again.outcome = "returned"
         /\ again.issues = WithFile(issues, other)

\* ------------------------------------------------------------ C22
\* w is a possibly empty run of consecutive lines of the array
IsSliceOf(w, text) ==
  \E a \in 0..Len(text), b \in 0..Len(text) :
    /\ a <= b
    /\ w = [j \in 1..(b - a) |-> text[a + j]]

Severities == {"error", "warning", "info"}

\* C25: all findings that carry the same rule id have the same severity, one
\* of error, warning and info, and the same message text.
C25_SeverityAndMessagePerRule ==
  \A a \in 1..Len(issues), b \in 1..Len(issues) :
    /\ issues[a].severity \in Severities
    /\ issues[a].rule = issues[b].rule =>
         /\ issues[a].severity = issues[b].severity
         /\ issues[a].message = issues[b].message

\* ------------------------------------------------------------ C29
\* the line-rule findings whose line lies outside the lines o..c
LineRuleFindingsOutside(found, o, c) ==
  SelectSeq(found, LAMBDA f : IsLineRule(f) /\ (f.line < o \/ f.line > c))

\* C29: replacing the text of a line strictly inside a closed block comment by
\* a text without a comment marker leaves every line-rule finding for the lines
\* outside the comment as it was.
C29_CommentTextDoesNotLeak ==
  pc = "done" =>
    \A o \in LineNumbers, i \in LineNumbers, c \in LineNumbers :
      StrictlyInside(o, i, c) =>
        \A other \in {r \in CommentedPool :
                        ~Includes(r, OpenMarker) /\ ~Includes(r, CloseMarker)} :
          LineRuleFindingsOutside(
              AnalyzeFresh(analyzer, [lines EXCEPT ![i] = other], filename).issues, o, c)
            = LineRuleFindingsOutside(issues, o, c)

\* ------------------------------------------------------------ C23
\* the largest distance that leaves room for a farther line in a text of
\* MaxWindowLines lines
FarDistance == MaxWindowLines - 2

FindingsAt(found, n) == SelectSeq(found, LAMBDA f : f.line = n)

\* C23: the report of a rule on line i depends only on the lines within a fixed
\* distance of i: changing a line farther than FarDistance from line i never
\* changes the findings for line i.
C23_BoundedLookAhead ==
  pc = "done" =>
    \A i \in LineNumbers, j \in LineNumbers :
      (j - i > FarDistance \/ i - j > FarDistance) =>
        \A other \in {<<>>, <<"serialVersionUID">>} :
          FindingsAt(AnalyzeFresh(analyzer, [lines EXCEPT ![j] = other], filename).issues, i)
            = FindingsAt(issues, i)

\* ------------------------------------------------------------ C21
LoggedFor(name) == \E k \in 1..Len(logged) : logged[k].file = name

\* the extensions the claim names
JavaExtensions == {".java"}
ComponentExtensions == {".js", ".jsx", ".ts", ".tsx"}
HasExtension(name, exts) == \E ext \in exts : EndsWith(name, <<ext>>)

\* C21: the driver selects the analyzer from the file's extension (.java: the
\* Java analyzer; .js, .jsx, .ts, .tsx: the React analyzer); a file on disk
\* whose extension maps to neither contributes no finding, raises no error and
\* does not stop the run.
C21_UnmappedExtensionSkipped ==
  /\ \A k \in 1..Len(results) :
       LET file == files[k]
       IN /\ results[k].file = file.name
          /\ (file.readable
                /\ ~HasExtension(file.name, JavaExtensions \cup ComponentExtensions)) =>
               /\ results[k].outcome = "returned"
               /\ results[k].issues = <<>>
               /\ results[k].aggregate = (IF k = 1 THEN <<>> ELSE results[k - 1].aggregate)
               /\ ~LoggedFor(file.name)
          /\ (file.readable /\ HasExtension(file.name, JavaExtensions)) =>
               \E j \in 1..Len(logged) :
                 logged[j].file = file.name /\ logged[j].message[1] = "JavaAnalyzer"
          /\ (file.readable /\ HasExtension(file.name, ComponentExtensions)) =>
               \E j \in 1..Len(logged) :
                 logged[j].file = file.name /\ logged[j].message[1] = "ReactAnalyzer"
  /\ pc = "main" => Len(results) = position
  /\ pc \in {"post", "exited"} => Len(results) = Len(files)

\* the run has posted its summary after README.md, first of three files on
\* disk, and a Java and a component file have followed it
C21_Witness ==
  /\ pc = "exited"
  /\ Len(files) = 3
  /\ files[1].name = <<"README", ".md">>
  /\ \A k \in 1..3 : files[k].readable
  /\ IsJavaFile(files[2].name)
  /\ IsComponentFile(files[3].name)
  /\ results[1].outcome = "returned"

\* ------------------------------------------------------------ C28
RECURSIVE Produced(_)
\* the findings the analyzers return for the first n files, for the files on
\* disk with a Java or component extension
Produced(n) ==
  IF n = 0 THEN <<>>
  ELSE LET file == files[n]
       IN Produced(n - 1)
            \o (IF file.readable
                     /\ HasExtension(file.name, JavaExtensions \cup ComponentExtensions)
                THEN AnalyzeFresh(AnalyzerOf(file.name), file.content, file.name).issues
                ELSE <<>>)

\* C28: in the pull-request driver all the findings the analyzer produces for
\* the changed Java and component files on disk are appended to allIssues, and
\* the total of the posted summary is their number.
C28_AllFindingsAggregated ==
  pc \in {"post", "exited"} =>
    /\ allIssues = Produced(Len(files))
    /\ \A k \in 1..Len(posted) : posted[k].body.total = Len(Produced(Len(files)))
====
